---- MODULE Spec2Model ----
(***************************************************************************)
(* Dioptra REST API: the plugin parameter type services                    *)
(* (src/dioptra/restapi/v1/plugin_parameter_types/service.py) over the     *)
(* resource / snapshot / lock tables, and the paging envelope builder      *)
(* (src/dioptra/restapi/v1/utils.py).                                      *)
(*                                                                         *)
(* The ORM layer (dioptra.restapi.db.models) and the group and snapshot    *)
(* services are outside the sources at hand; the operators standing for    *)
(* them follow the data model of the specification document, sections 3    *)
(* and 4.1.                                                                *)
(***************************************************************************)
EXTENDS Integers, Sequences, FiniteSets, TLC

\* ---- bounds of the model ------------------------------------------------
NumNames == 2
NumStructures == 2
NumDescriptions == 2
NumGroups == 2
MaxResources == 2
MaxSnapshots == 3
\* the user runs: passwords, last day of the authenticate calls
NumPasswords == 2
MaxDay == 2
NumUsernames == 2
MaxUsers == 2
MaxUuids == 3
MaxTicks == 2
NumBuiltins == 2
\* the requests that run next to each other
NumRequests == 2
\* the paging runs: resources in the seeded tables, page lengths, indexes
MaxItems == 4
MaxLength == 3
MaxIndex == 3

\* ---- program constants --------------------------------------------------
RESOURCE_TYPE == "plugin_task_parameter_type"
PLUGIN_PARAMETER_TYPES == "pluginParameterTypes"
DEFAULT_GROUP_NAME == "public"
DAYS_TO_EXPIRE_PASSWORD_DEFAULT == 365

\* Python's None where an integer is expected
NoneValue == -1

Names == 1..NumNames
Structures == 1..NumStructures
\* no description is also a structure
Descriptions == (NumStructures + 1)..(NumStructures + NumDescriptions)
\* the structure and the description of the requests that vary neither
PlainStructure == CHOOSE structure \in Structures : TRUE
PlainDescription == CHOOSE description \in Descriptions : TRUE
\* the groups that exist; requests may also name a group that does not
Groups == 1..NumGroups
Passwords == 1..NumPasswords
Usernames == 1..NumUsernames
\* user ids a request may carry: every id ever issued and one never issued
UserIds == 1..(MaxUsers + 1)
\* the salts the password service makes hashes with
Salts == {"salt1", "salt2"}
\* the days of the clock of the authenticate calls
Days == 0..MaxDay
GroupIds == 1..(NumGroups + 1)
\* resource ids a request may carry: every id ever issued and one never issued
ResourceIds == 1..(MaxResources + 1)
Requests == 1..NumRequests

VARIABLES
    resources,         \* resource_id -> row of the resources table
    snapshots,         \* rows of the plugin_task_parameter_types table
    locks,             \* rows of the resource_locks table
    next_resource_id,  \* autoincrement of resources.resource_id
    next_snapshot_id,  \* autoincrement of resource_snapshots.resource_snapshot_id
    resp,              \* the request last completed and the row it returned
    paging,            \* the list request last served and the pages read so far
    users,             \* user_id -> row of the users table
    groups,            \* group_id -> row of the groups table
    members,           \* rows of the group_members table
    now,               \* the clock, in days
    next_uuid,         \* the next value uuid.uuid4() returns
    sessions           \* request -> the position and the db.session of a
                       \* request that runs next to others

dbvars == <<resources, snapshots, locks, next_resource_id, next_snapshot_id>>
uservars == <<users, groups, members, now, next_uuid>>
vars ==
    <<resources, snapshots, locks, next_resource_id, next_snapshot_id, resp,
      paging, users, groups, members, now, next_uuid, sessions>>

\* ---- the ORM layer -------------------------------------------------------

\* the value of a query's .first() when no row matches
NoRow ==
    [resource_snapshot_id |-> 0, resource_id |-> 0, name |-> 0,
     structure |-> 0, description |-> 0]

\* Resource.is_deleted: a "delete" lock is recorded for the resource
is_deleted(resource_id) ==
    \E l \in locks :
        l.resource_id = resource_id /\ l.resource_lock_type = "delete"

\* Resource.latest_snapshot_id
latest_snapshot_id(resource_id) == resources[resource_id].latest_snapshot_id

\* db.session.add(resource) + commit of a new Resource row
AddResource(res, resource_id, group_id) ==
    [r \in (DOMAIN res) \cup {resource_id} |->
        IF r = resource_id
        THEN [resource_type |-> RESOURCE_TYPE, group_id |-> group_id,
              latest_snapshot_id |-> 0]
        ELSE res[r]]

\* the effect on the resources table of inserting a snapshot of resource_id:
\* the resource's latest_snapshot_id is repointed to the new row
RepointLatest(res, resource_id, snapshot_id) ==
    [res EXCEPT ![resource_id].latest_snapshot_id = snapshot_id]

\* NewSnapshot with the structure argument not passed on
NewSnapshot_NoStructure(snapshot_id, resource_id, name, structure, description) ==
    [resource_snapshot_id |-> snapshot_id, resource_id |-> resource_id,
     name |-> name, structure |-> 1, description |-> description]

\* models.PluginTaskParameterType(name=..., structure=..., description=...,
\* resource=...) as inserted with the next resource_snapshot_id
NewSnapshot(snapshot_id, resource_id, name, structure, description) ==
    [resource_snapshot_id |-> snapshot_id, resource_id |-> resource_id,
     name |-> name, structure |-> structure, description |-> description]

\* SessionAdd as an update in place: the new row replaces the resource's rows
SessionAdd_InPlace(rows, row) ==
    {s \in rows : s.resource_id # row.resource_id} \cup {row}

\* db.session.add(row) followed by the commit: the row joins the table and
\* no other row is touched
SessionAdd(rows, row) == rows \cup {row}

\* .first() of a result set: some row of it, or no row
First(rows) == IF rows = {} THEN NoRow ELSE CHOOSE s \in rows : TRUE

\* GroupIdService.get(group_id, error_if_not_found=True) finds the group
GroupIdService_get(group_id) == group_id \in DOMAIN groups

\* ---- PluginParameterTypeNameService --------------------------------------

\* the name lookup without the filter on is_deleted
PluginParameterTypeNameService_get_Deleted(name, group_id) ==
    First({s \in snapshots :
            /\ s.name = name
            /\ s.resource_id \in DOMAIN resources
            /\ resources[s.resource_id].group_id = group_id
            /\ latest_snapshot_id(s.resource_id) = s.resource_snapshot_id})

PluginParameterTypeNameService_get(name, group_id) ==
    First({s \in snapshots :
            /\ s.name = name
            /\ s.resource_id \in DOMAIN resources
            /\ resources[s.resource_id].group_id = group_id
            /\ ~is_deleted(s.resource_id)
            /\ latest_snapshot_id(s.resource_id) = s.resource_snapshot_id})

\* ---- PluginParameterTypeIdService ----------------------------------------

\* the row the query of get() yields
IdGetRow(plugin_parameter_type_id) ==
    First({s \in snapshots :
            /\ s.resource_id = plugin_parameter_type_id
            /\ s.resource_id \in DOMAIN resources
            /\ s.resource_snapshot_id = latest_snapshot_id(s.resource_id)
            /\ ~is_deleted(s.resource_id)})

PluginParameterTypeIdService_get(plugin_parameter_type_id, error_if_not_found) ==
    LET row == IdGetRow(plugin_parameter_type_id) IN
    IF row = NoRow
    THEN IF error_if_not_found
         THEN [status |-> "DoesNotExist", row |-> NoRow]
         ELSE [status |-> "None", row |-> NoRow]
    ELSE [status |-> "OK", row |-> row]

\* latest_snapshot comparing against the resource id
latest_snapshot_ResourceId(row) ==
    resources[row.resource_id].latest_snapshot_id = row.resource_id

\* build_plugin_parameter_type: the "latest_snapshot" field of the response
\* built for a snapshot row
latest_snapshot(row) ==
    resources[row.resource_id].latest_snapshot_id = row.resource_snapshot_id

\* ---- responses -----------------------------------------------------------

\* the request last completed: its arguments and the row it returned.  A
\* request that raises, or returns None, changes nothing and is not recorded:
\* what it raises is the value of CreateOutcome, ModifyOutcome, DeleteOutcome.
Response(op, row, resource_id, name, structure, description, group_id) ==
    [op |-> op, row |-> row, resource_id |-> resource_id, name |-> name,
     structure |-> structure, description |-> description,
     group_id |-> group_id]

\* ---- PluginParameterTypeService.create -----------------------------------

\* create without its name check
CreateNameExists_Never(name, group_id) == FALSE

\* the name check of create
CreateNameExists(name, group_id) ==
    PluginParameterTypeNameService_get(name, group_id) # NoRow

\* what create raises, "OK" when it runs to its return
CreateOutcome(name, group_id) ==
    IF CreateNameExists(name, group_id) THEN "AlreadyExists"
    ELSE IF ~GroupIdService_get(group_id) THEN "GroupDoesNotExist"
    ELSE "OK"

PluginParameterTypeService_create(name, structure, description, group_id) ==
    IF CreateOutcome(name, group_id) # "OK"
    THEN UNCHANGED <<dbvars, resp>>
    ELSE /\ next_resource_id <= MaxResources
         /\ next_snapshot_id <= MaxSnapshots
         /\ LET new_plugin_parameter_type ==
                    NewSnapshot(next_snapshot_id, next_resource_id, name,
                                structure, description)
            IN /\ resources' =
                    RepointLatest(
                        AddResource(resources, next_resource_id, group_id),
                        next_resource_id, next_snapshot_id)
               /\ snapshots' = SessionAdd(snapshots, new_plugin_parameter_type)
               /\ resp' = Response("create", new_plugin_parameter_type,
                                   next_resource_id, name, structure,
                                   description, group_id)
         /\ next_resource_id' = next_resource_id + 1
         /\ next_snapshot_id' = next_snapshot_id + 1
         /\ UNCHANGED locks

\* a create request of any name and group; the structure and the description
\* are the same in every request
Create ==
    /\ \E name \in Names, group_id \in GroupIds :
            PluginParameterTypeService_create(name, PlainStructure,
                                              PlainDescription, group_id)
    /\ UNCHANGED <<paging, sessions, uservars>>

\* the first create request, of any name, structure, description and group
CreateFields ==
    /\ next_resource_id = 1
    /\ \E name \in Names, structure \in Structures,
          description \in Descriptions, group_id \in GroupIds :
            PluginParameterTypeService_create(name, structure, description,
                                              group_id)
    /\ UNCHANGED <<paging, sessions, uservars>>

\* ---- PluginParameterTypeIdService.modify ---------------------------------

\* modify without its name check
ModifyNameExists_Never(plugin_parameter_type, name, group_id) == FALSE

\* the name check of modify without the test that the name changes
ModifyNameExists_SameName(plugin_parameter_type, name, group_id) ==
    PluginParameterTypeNameService_get(name, group_id) # NoRow

\* the name check of modify: the name changes and the new one is taken
ModifyNameExists(plugin_parameter_type, name, group_id) ==
    /\ name # plugin_parameter_type.name
    /\ PluginParameterTypeNameService_get(name, group_id) # NoRow

\* what modify raises, "None" when it returns None, "OK" when it runs to the
\* return of the new snapshot
ModifyOutcome(plugin_parameter_type_id, name, error_if_not_found) ==
    LET got == PluginParameterTypeIdService_get(plugin_parameter_type_id,
                                                error_if_not_found)
    IN IF got.status # "OK" THEN got.status
       ELSE IF ModifyNameExists(got.row, name,
                                resources[got.row.resource_id].group_id)
       THEN "AlreadyExists"
       ELSE "OK"

PluginParameterTypeIdService_modify(plugin_parameter_type_id, name, structure, description, error_if_not_found) ==
    IF ModifyOutcome(plugin_parameter_type_id, name, error_if_not_found) # "OK"
    THEN UNCHANGED <<dbvars, resp>>
    ELSE LET plugin_parameter_type == IdGetRow(plugin_parameter_type_id)
             group_id == resources[plugin_parameter_type.resource_id].group_id
             new_plugin_parameter_type ==
                 NewSnapshot(next_snapshot_id,
                             plugin_parameter_type.resource_id, name,
                             structure, description)
         IN /\ next_snapshot_id <= MaxSnapshots
            /\ snapshots' = SessionAdd(snapshots, new_plugin_parameter_type)
            /\ resources' =
                 RepointLatest(resources, plugin_parameter_type.resource_id,
                               next_snapshot_id)
            /\ resp' = Response("modify", new_plugin_parameter_type,
                                plugin_parameter_type_id, name, structure,
                                description, group_id)
            /\ next_snapshot_id' = next_snapshot_id + 1
            /\ UNCHANGED <<locks, next_resource_id>>

\* a modify request of any id and name; the structure and the description
\* are the same in every request
Modify ==
    /\ \E plugin_parameter_type_id \in ResourceIds, name \in Names,
          error_if_not_found \in BOOLEAN :
            PluginParameterTypeIdService_modify(plugin_parameter_type_id, name,
                                                PlainStructure,
                                                PlainDescription,
                                                error_if_not_found)
    /\ UNCHANGED <<paging, sessions, uservars>>

\* a modify request of any id, name, structure and description
ModifyFields ==
    /\ next_snapshot_id < MaxSnapshots
    /\ \E plugin_parameter_type_id \in ResourceIds, name \in Names,
          structure \in Structures, description \in Descriptions,
          error_if_not_found \in BOOLEAN :
            PluginParameterTypeIdService_modify(plugin_parameter_type_id, name,
                                                structure, description,
                                                error_if_not_found)
    /\ UNCHANGED <<paging, sessions, uservars>>

\* ---- PluginParameterTypeIdService.delete ---------------------------------

\* the query of delete without its is_deleted filter
DeleteQuery_NoDeletedFilter(plugin_parameter_type_id) ==
    {r \in DOMAIN resources :
        /\ r = plugin_parameter_type_id
        /\ resources[r].resource_type = RESOURCE_TYPE}

\* select(models.Resource).filter_by(resource_id=..., resource_type=...,
\* is_deleted=False): the resource ids the query yields
DeleteQuery(plugin_parameter_type_id) ==
    {r \in DOMAIN resources :
        /\ r = plugin_parameter_type_id
        /\ resources[r].resource_type = RESOURCE_TYPE
        /\ ~is_deleted(r)}

\* the lock recorded with another lock type
DeletedResourceLock_ReadOnly(resource_id) ==
    [resource_id |-> resource_id, resource_lock_type |-> "readonly"]

\* models.ResourceLock(resource_lock_type="delete", resource=...)
DeletedResourceLock(resource_id) ==
    [resource_id |-> resource_id, resource_lock_type |-> "delete"]

\* what delete raises, "OK" when it runs to its return
DeleteOutcome(plugin_parameter_type_id) ==
    IF DeleteQuery(plugin_parameter_type_id) = {} THEN "DoesNotExist"
    ELSE "OK"

PluginParameterTypeIdService_delete(plugin_parameter_type_id) ==
    IF DeleteOutcome(plugin_parameter_type_id) # "OK"
    THEN UNCHANGED <<dbvars, resp>>
    ELSE /\ locks' = SessionAdd(locks,
                               DeletedResourceLock(plugin_parameter_type_id))
         /\ resp' = Response("delete", NoRow, plugin_parameter_type_id,
                             0, 0, 0, 0)
         /\ UNCHANGED <<resources, snapshots, next_resource_id,
                        next_snapshot_id>>

Delete ==
    /\ \E plugin_parameter_type_id \in ResourceIds :
            PluginParameterTypeIdService_delete(plugin_parameter_type_id)
    /\ UNCHANGED <<paging, sessions, uservars>>

\* ---- ResourceSnapshotsIdService.get --------------------------------------

\* the snapshot of the resource with the given snapshot id, whatever the
\* deletion state of the resource
ResourceSnapshotsIdService_get(resource_id, snapshot_id) ==
    LET row == First({s \in snapshots :
                        /\ s.resource_id = resource_id
                        /\ s.resource_snapshot_id = snapshot_id})
    IN IF row = NoRow
       THEN [status |-> "DoesNotExist", row |-> NoRow]
       ELSE [status |-> "OK", row |-> row]

\* ---- PluginParameterTypeService.get (the list) ---------------------------

Min(a, b) == IF a <= b THEN a ELSE b

\* the rows of a result set in the order the table is scanned: by primary key
RECURSIVE ScanOrder(_)
ScanOrder(rows) ==
    IF rows = {} THEN << >>
    ELSE LET m == CHOOSE s \in rows :
                    \A t \in rows :
                        s.resource_snapshot_id <= t.resource_snapshot_id
         IN <<m>> \o ScanOrder(rows \ {m})

\* the where clause without the test of latest_snapshot_id
ListQuery_NoLatestFilter(group_id) ==
    {s \in snapshots :
        /\ s.resource_id \in DOMAIN resources
        /\ (group_id # NoneValue
                => resources[s.resource_id].group_id = group_id)
        /\ ~is_deleted(s.resource_id)}

\* the where clause of both statements of the list: the latest snapshots of
\* the resources that are not deleted, of the group when one is given
ListQuery(group_id) ==
    {s \in snapshots :
        /\ s.resource_id \in DOMAIN resources
        /\ (group_id # NoneValue
                => resources[s.resource_id].group_id = group_id)
        /\ ~is_deleted(s.resource_id)
        /\ latest_snapshot_id(s.resource_id) = s.resource_snapshot_id}

\* .offset(page_index).limit(page_length) with the index taken as a page number
OffsetLimit_PageNumber(rows, page_index, page_length) ==
    SubSeq(rows, page_index * page_length + 1,
           Min(page_index * page_length + page_length, Len(rows)))

\* .offset(page_index).limit(page_length)
OffsetLimit(rows, page_index, page_length) ==
    SubSeq(rows, page_index + 1, Min(page_index + page_length, Len(rows)))

\* the list service accepting every search string
SearchProvided_Never(search_string) == FALSE

\* if search_string: a search string is provided
SearchProvided(search_string) == search_string # ""

PluginParameterTypeService_get(group_id, search_string, page_index, page_length) ==
    IF SearchProvided(search_string)
    THEN [status |-> "SearchNotImplemented", rows |-> << >>, total |-> 0]
    ELSE LET total_num_plugin_parameter_types ==
                Cardinality(ListQuery(group_id))
         IN IF total_num_plugin_parameter_types = 0
            THEN [status |-> "OK", rows |-> << >>,
                  total |-> total_num_plugin_parameter_types]
            ELSE [status |-> "OK",
                  rows |-> OffsetLimit(ScanOrder(ListQuery(group_id)),
                                       page_index, page_length),
                  total |-> total_num_plugin_parameter_types]

\* ---- the response builders ------------------------------------------------

\* build_plugin_parameter_type: the response built for a snapshot row
build_plugin_parameter_type(row) ==
    [id |-> row.resource_id, snapshot_id |-> row.resource_snapshot_id,
     name |-> row.name, structure |-> row.structure,
     description |-> row.description,
     group |-> resources[row.resource_id].group_id,
     latest_snapshot |-> latest_snapshot(row)]

\* build_paging_url and build_url: the route and the query parameters of the
\* URL; a parameter whose value is falsy is left out
build_paging_url(route_prefix, group_id, search, draft_type, index, length) ==
    LET q0 == [path |-> route_prefix, index |-> index, pageLength |-> length]
        q1 == IF group_id # NoneValue /\ group_id # 0
              THEN q0 @@ [groupId |-> group_id] ELSE q0
        q2 == IF search # "" THEN q1 @@ [search |-> search] ELSE q1
    IN IF draft_type # "" THEN q2 @@ [draft_type |-> draft_type] ELSE q2

\* has_next with the last row of the page counted as still to come
has_next_Geq(index, length, total_num_elements) ==
    total_num_elements >= index + length

has_next(index, length, total_num_elements) ==
    total_num_elements > index + length

has_prev(index) == index > 0

Max(a, b) == IF a >= b THEN a ELSE b

build_paging_envelope(route_prefix, data, group_id, query, draft_type, index, length, total_num_elements) ==
    LET is_complete == ~has_next(index, length, total_num_elements)
        paged_data ==
            [index |-> index,
             is_complete |-> is_complete,
             total_num_results |-> total_num_elements,
             first |-> build_paging_url(route_prefix, group_id, query,
                                        draft_type, 0, length),
             data |-> [i \in 1..Len(data) |->
                            build_plugin_parameter_type(data[i])]]
        with_prev ==
            IF has_prev(index)
            THEN paged_data @@
                 [prev |-> build_paging_url(route_prefix, group_id, query,
                                            draft_type,
                                            Max(index - length, 0), length)]
            ELSE paged_data
    IN IF has_next(index, length, total_num_elements)
       THEN with_prev @@
            [next |-> build_paging_url(route_prefix, group_id, query,
                                       draft_type, index + length, length)]
       ELSE with_prev

\* ---- the list endpoint and a client reading the list page by page ---------

\* the envelope of a request that built none
NoEnvelope == [index |-> 0, is_complete |-> TRUE, total_num_results |-> 0]

Idle ==
    [phase |-> "idle", group_id |-> NoneValue, search |-> "",
     draft_type |-> "", index |-> 0, length |-> 0, total |-> 0,
     env |-> NoEnvelope, acc |-> << >>, completes |-> << >>]

\* GET /pluginParameterTypes: the service's page wrapped in the envelope
PluginParameterTypeEndpoint_get(group_id, search_string, page_index, page_length) ==
    LET got == PluginParameterTypeService_get(group_id, search_string,
                                              page_index, page_length)
    IN IF got.status # "OK"
       THEN [status |-> got.status, total |-> 0, env |-> NoEnvelope]
       ELSE [status |-> "OK", total |-> got.total,
             env |-> build_paging_envelope(PLUGIN_PARAMETER_TYPES, got.rows,
                                           group_id, search_string, "",
                                           page_index, page_length,
                                           got.total)]

\* the query parameters a client following a link sends
LinkGroupId(url) == IF "groupId" \in DOMAIN url THEN url.groupId ELSE NoneValue
LinkSearch(url) == IF "search" \in DOMAIN url THEN url.search ELSE ""

\* one page read: the request served, its envelope, and the data and the
\* is_complete flags of the pages read so far
PageRead(group_id, search_string, page_index, page_length, acc, completes) ==
    LET r == PluginParameterTypeEndpoint_get(group_id, search_string,
                                             page_index, page_length)
    IN IF r.status # "OK"
       THEN [Idle EXCEPT !.phase = "error", !.group_id = group_id,
                         !.search = search_string, !.index = page_index,
                         !.length = page_length]
       ELSE [phase |-> IF "next" \in DOMAIN r.env THEN "paging" ELSE "done",
             group_id |-> group_id, search |-> search_string,
             draft_type |-> "", index |-> page_index, length |-> page_length,
             total |-> r.total, env |-> r.env,
             acc |-> acc \o r.env.data,
             completes |-> Append(completes, r.env.is_complete)]

\* the client requests the first page
ListStart ==
    /\ paging.phase = "idle"
    /\ \E group_id \in {NoneValue} \cup Groups, search_string \in {"", "name:*int*"},
          page_length \in 1..MaxLength :
            paging' = PageRead(group_id, search_string, 0, page_length,
                               << >>, << >>)
    /\ UNCHANGED <<dbvars, resp, uservars, sessions>>

\* the client follows the next link of the page it holds
ListNext ==
    /\ paging.phase = "paging"
    /\ LET url == paging.env.next
       IN paging' = PageRead(LinkGroupId(url), LinkSearch(url), url.index,
                             url.pageLength, paging.acc, paging.completes)
    /\ UNCHANGED <<dbvars, resp, uservars, sessions>>

\* build_paging_envelope applied to arguments of any kind
BuildEnvelope ==
    /\ paging.phase = "idle"
    /\ \E index \in (-1)..MaxIndex, length \in 0..MaxLength,
          total_num_elements \in 0..(MaxItems + 1),
          group_id \in {NoneValue, 0, 1}, query \in {"", "name:*int*"},
          draft_type \in {"", "existing"} :
            paging' =
                [phase |-> "built", group_id |-> group_id, search |-> query,
                 draft_type |-> draft_type, index |-> index,
                 length |-> length, total |-> total_num_elements,
                 env |-> build_paging_envelope(PLUGIN_PARAMETER_TYPES, << >>,
                                               group_id, query, draft_type,
                                               index, length,
                                               total_num_elements),
                 acc |-> << >>, completes |-> << >>]
    /\ UNCHANGED <<dbvars, resp, uservars, sessions>>

\* ---- QueueEndpoint.get -----------------------------------------------------

\* the parameters of build_paging_envelope, none of which has a default
PagingParameters ==
    <<"route_prefix", "build_fn", "data", "group_id", "query", "draft_type",
      "index", "length", "total_num_elements">>

\* the binding of the arguments of a Python call to the parameters: the
\* positional ones in order, the others by keyword; a TypeError when there
\* are too many, when one is given twice or is unknown, or when a parameter
\* is left without a value
Bind(parameters, positional, keywords) ==
    IF \/ Len(positional) > Len(parameters)
       \/ \E k \in DOMAIN keywords :
            \A i \in (Len(positional) + 1)..Len(parameters) :
                parameters[i] # k
       \/ \E i \in (Len(positional) + 1)..Len(parameters) :
            parameters[i] \notin DOMAIN keywords
    THEN [status |-> "TypeError", args |-> << >>]
    ELSE [status |-> "OK",
          args |-> [i \in 1..Len(parameters) |->
                        IF i <= Len(positional) THEN positional[i]
                        ELSE keywords[parameters[i]]]]

\* GET /queues: the page of the queue service handed to
\* build_paging_envelope as seven positional arguments
QueueEndpoint_get(search_string, page_index, page_length, queues, total_num_queues) ==
    LET call == Bind(PagingParameters,
                     <<"queues", "build_queue", queues, search_string,
                       page_index, page_length, total_num_queues>>, << >>)
    IN IF call.status # "OK"
       THEN [status |-> call.status, env |-> NoEnvelope]
       ELSE [status |-> "OK",
             env |-> build_paging_envelope(call.args[1], call.args[3],
                                           call.args[4], call.args[5],
                                           call.args[6], call.args[7],
                                           call.args[8], call.args[9])]

\* a client requests a page of the queues; the queue service returns a page
\* and a total
QueuesList ==
    /\ paging.phase = "idle"
    /\ \E search_string \in {"", "name:*int*"}, page_index \in 0..MaxIndex,
          page_length \in 1..MaxLength, total_num_queues \in 0..MaxItems :
            LET r == QueueEndpoint_get(search_string, page_index, page_length,
                                       << >>, total_num_queues)
            IN paging' =
                [Idle EXCEPT !.phase = IF r.status = "OK" THEN "queues"
                                       ELSE r.status,
                             !.search = search_string,
                             !.index = page_index, !.length = page_length,
                             !.total = total_num_queues, !.env = r.env]
    /\ UNCHANGED <<dbvars, resp, uservars, sessions>>

\* ---- PasswordService ------------------------------------------------------

\* a hash is made with a salt of the service's choice and keeps it
PasswordService_hash(password, salt) ==
    [salt |-> salt, digest |-> <<salt, password>>]

PasswordService_verify(password, hashed_password) ==
    PasswordService_hash(password, hashed_password.salt) = hashed_password

\* ---- UserPasswordService.authenticate -------------------------------------

\* the expiry test taking the day of expiry as expired
PasswordExpired_Leq(expiration_date, current_timestamp) ==
    expiration_date <= current_timestamp

\* expiration_date < current_timestamp
PasswordExpired(expiration_date, current_timestamp) ==
    expiration_date < current_timestamp

\* the test that raises UserPasswordVerificationError, without error_if_failed
VerificationFails_Always(authenticated, error_if_failed) == ~authenticated

\* not authenticated and error_if_failed
VerificationFails(authenticated, error_if_failed) ==
    ~authenticated /\ error_if_failed

\* what authenticate raises, or the value it returns ("True", "False")
UserPasswordService_authenticate(password, user_password, expiration_date, error_if_failed) ==
    LET current_timestamp == now
        authenticated == PasswordService_verify(password, user_password)
    IN IF VerificationFails(authenticated, error_if_failed)
       THEN "UserPasswordVerificationError"
       ELSE IF PasswordExpired(expiration_date, current_timestamp)
       THEN "UserPasswordExpiredError"
       ELSE IF authenticated THEN "True" ELSE "False"

\* the call of authenticate that is waiting to be served
AuthenticateCall(password, user_password, expiration_date, error_if_failed) ==
    [op |-> "authenticate", password |-> password,
     user_password |-> user_password, expiration_date |-> expiration_date,
     error_if_failed |-> error_if_failed, result |-> "pending"]

\* the call is served
Authenticate ==
    /\ resp.op = "authenticate"
    /\ resp.result = "pending"
    /\ resp' = [resp EXCEPT !.result =
                    UserPasswordService_authenticate(resp.password,
                                                     resp.user_password,
                                                     resp.expiration_date,
                                                     resp.error_if_failed)]
    /\ UNCHANGED <<dbvars, paging, sessions, uservars>>

\* ---- the user and group repositories --------------------------------------

\* uow.user_repo.get(user_id, DeletionPolicy.NOT_DELETED)
user_repo_get(user_id) ==
    user_id \in DOMAIN users /\ ~users[user_id].is_deleted

\* uow.user_repo.get_by_alternative_id(alternative_id): the ids of the users
\* found
user_repo_get_by_alternative_id(alternative_id) ==
    {u \in DOMAIN users :
        users[u].alternative_id = alternative_id /\ ~users[u].is_deleted}

\* uow.group_repo.get_by_name(name): the ids of the groups found
group_repo_get_by_name(name) ==
    {g \in DOMAIN groups : groups[g].name = name}

\* models.GroupMember(user=..., group=..., read=..., write=..., ...)
GroupMember(user_id, group_id, read, write, share_read, share_write) ==
    [user_id |-> user_id, group_id |-> group_id, read |-> read,
     write |-> write, share_read |-> share_read, share_write |-> share_write]

\* uow.user_repo.create(new_user, default_group, **DEFAULT_GROUP_PERMISSIONS):
\* the member row
DefaultMember(user_id, group_id) ==
    GroupMember(user_id, group_id, TRUE, TRUE, FALSE, FALSE)

\* load_user: the ids of the users a session holding the alternative id is of
load_user(user_id) == user_repo_get_by_alternative_id(user_id)

\* ---- UserPasswordService.change -------------------------------------------

\* change without the same-password test
SamePassword_Never(user, new_password) == FALSE

\* the new password verifies against the stored hash
SamePassword(user, new_password) ==
    PasswordService_verify(new_password, user.password)

\* change without the test of the current password
CurrentPasswordFails_Never(user, current_password) == FALSE

\* the current password does not verify against the stored hash
CurrentPasswordFails(user, current_password) ==
    ~PasswordService_verify(current_password, user.password)

\* what change raises, "OK" when it runs to its return
ChangeOutcome(user, current_password, new_password, confirm_new_password) ==
    IF CurrentPasswordFails(user, current_password)
    THEN "UserPasswordChangeError"
    ELSE IF new_password # confirm_new_password
    THEN "UserPasswordChangeError"
    ELSE IF SamePassword(user, new_password)
    THEN "UserPasswordChangeSamePasswordError"
    ELSE "OK"

\* the expiry a day early
NewExpiry_DayEarly(timestamp) == timestamp + DAYS_TO_EXPIRE_PASSWORD_DEFAULT - 1

\* timestamp + datetime.timedelta(days=DAYS_TO_EXPIRE_PASSWORD_DEFAULT)
NewExpiry(timestamp) == timestamp + DAYS_TO_EXPIRE_PASSWORD_DEFAULT

\* uuid.uuid4(): a value no earlier call returned
uuid4 == next_uuid

\* the assignments of change without the one of alternative_id
ChangedUser_SameAlternativeId(user, new_password, salt) ==
    [user EXCEPT !.password = PasswordService_hash(new_password, salt),
                 !.last_modified_on = now,
                 !.password_expire_on = NewExpiry(now)]

\* the user row after the assignments of change
ChangedUser(user, new_password, salt) ==
    [user EXCEPT !.password = PasswordService_hash(new_password, salt),
                 !.alternative_id = uuid4,
                 !.last_modified_on = now,
                 !.password_expire_on = NewExpiry(now)]

UserPasswordService_change(user_id, current_password, new_password, confirm_new_password) ==
    LET user == users[user_id] IN
    IF ChangeOutcome(user, current_password, new_password,
                     confirm_new_password) # "OK"
    THEN UNCHANGED <<uservars, resp>>
    ELSE /\ next_uuid <= MaxUuids
         /\ \E salt \in Salts :
                users' = [users EXCEPT
                            ![user_id] = ChangedUser(user, new_password, salt)]
         /\ next_uuid' = next_uuid + 1
         /\ resp' = [op |-> "change", user_id |-> user_id,
                     current_password |-> current_password,
                     new_password |-> new_password,
                     confirm_new_password |-> confirm_new_password,
                     timestamp |-> now, before |-> user]
         /\ UNCHANGED <<groups, members, now>>

\* UserIdService.change_password: what it raises
ChangePasswordOutcome(user_id, current_password, new_password, confirm_new_password) ==
    IF ~user_repo_get(user_id) THEN "UserDoesNotExistError"
    ELSE ChangeOutcome(users[user_id], current_password, new_password,
                       confirm_new_password)

UserIdService_change_password(user_id, current_password, new_password, confirm_new_password) ==
    IF ~user_repo_get(user_id)
    THEN UNCHANGED <<uservars, resp>>
    ELSE UserPasswordService_change(user_id, current_password, new_password,
                                    confirm_new_password)

ChangePassword ==
    /\ \E user_id \in UserIds, current_password \in Passwords,
          new_password \in Passwords, confirm_new_password \in Passwords :
            UserIdService_change_password(user_id, current_password,
                                          new_password, confirm_new_password)
    /\ UNCHANGED <<dbvars, paging, sessions>>

\* a day passes, or the validity window of a password
Tick ==
    /\ (now \div DAYS_TO_EXPIRE_PASSWORD_DEFAULT)
            + (now % DAYS_TO_EXPIRE_PASSWORD_DEFAULT) < MaxTicks
    /\ \E days \in {1, DAYS_TO_EXPIRE_PASSWORD_DEFAULT} : now' = now + days
    /\ UNCHANGED <<dbvars, paging, sessions, resp, users, groups, members, next_uuid>>

\* ---- UserService.create ----------------------------------------------------

\* models.User(username=..., password=..., email_address=...): the row, with
\* the defaults of the columns
NewUser(username, email_address, hashed_password) ==
    [username |-> username, email_address |-> email_address,
     password |-> hashed_password, alternative_id |-> uuid4,
     last_modified_on |-> now,
     password_expire_on |-> NewExpiry(now), is_deleted |-> FALSE]

\* create without the test of the confirmation
ConfirmationFails_Never(password, confirm_password) == FALSE

\* password != confirm_password
ConfirmationFails(password, confirm_password) == password # confirm_password

\* what create raises, "OK" when it runs to its return
RegisterOutcome(username, email_address, password, confirm_password) ==
    IF ConfirmationFails(password, confirm_password)
    THEN "UserRegistrationError"
    ELSE IF \E u \in DOMAIN users : users[u].username = username
    THEN "UsernameNotAvailableError"
    ELSE IF \E u \in DOMAIN users : users[u].email_address = email_address
    THEN "UserEmailNotAvailableError"
    ELSE "OK"

\* BuiltinPluginParameterTypeService.create_all: the resources table with a
\* resource of the group for each built-in type
BuiltinResources(group_id) ==
    [r \in 1..(next_resource_id + NumBuiltins - 1) |->
        IF r \in DOMAIN resources THEN resources[r]
        ELSE [resource_type |-> RESOURCE_TYPE, group_id |-> group_id,
              latest_snapshot_id |-> next_snapshot_id + (r - next_resource_id)]]

\* ... and the first snapshot of each, named after the type
BuiltinSnapshots ==
    {NewSnapshot(next_snapshot_id + i - 1, next_resource_id + i - 1,
                 NumNames + i, 0, 0) : i \in 1..NumBuiltins}

\* the default group never found
DefaultGroupFound_Never == {}

\* _create_or_get_default_group: the ids of the groups get_by_name finds
DefaultGroupFound == group_repo_get_by_name(DEFAULT_GROUP_NAME)

UserService_create(username, email_address, password, confirm_password) ==
    IF RegisterOutcome(username, email_address, password,
                       confirm_password) # "OK"
    THEN UNCHANGED <<dbvars, uservars, resp>>
    ELSE
    LET user_id == Len(users) + 1
        found == DefaultGroupFound
        group_id == IF found = {} THEN Len(groups) + 1
                    ELSE CHOOSE g \in found : TRUE
    IN
    /\ Len(users) < MaxUsers
    /\ next_uuid <= MaxUuids
    /\ \E salt \in Salts :
            users' = Append(users,
                            NewUser(username, email_address,
                                    PasswordService_hash(password, salt)))
    /\ next_uuid' = next_uuid + 1
    /\ IF found = {}
       THEN /\ groups' = Append(groups, [name |-> DEFAULT_GROUP_NAME,
                                         creator |-> user_id])
            /\ members' = members \cup
                    {GroupMember(user_id, group_id, TRUE, TRUE, TRUE, TRUE)}
            /\ resources' = BuiltinResources(group_id)
            /\ snapshots' = snapshots \cup BuiltinSnapshots
            /\ next_resource_id' = next_resource_id + NumBuiltins
            /\ next_snapshot_id' = next_snapshot_id + NumBuiltins
            /\ UNCHANGED locks
       ELSE /\ IF groups[group_id].creator # user_id
               THEN members' = members \cup {DefaultMember(user_id, group_id)}
               ELSE UNCHANGED members
            /\ UNCHANGED <<groups, dbvars>>
    /\ resp' = [op |-> "register", user_id |-> user_id,
                username |-> username, password |-> password,
                confirm_password |-> confirm_password,
                group_id |-> group_id, first |-> (found = {})]
    /\ UNCHANGED now

\* a registration request; every person registers with an address of their
\* own
Register ==
    /\ \E username \in Usernames, password \in Passwords,
          confirm_password \in Passwords :
            UserService_create(username, username, password, confirm_password)
    /\ UNCHANGED <<paging, sessions>>

\* the registration of the first user
RegisterFirst ==
    /\ users = << >>
    /\ \E username \in Usernames, password \in Passwords,
          confirm_password \in Passwords :
            UserService_create(username, username, password, confirm_password)
    /\ UNCHANGED <<paging, sessions>>

\* ---- UserService.create and its unit of work ------------------------------

\* A `with self._uow:` block commits when it is left without an exception
\* (UserCurrentService.delete has no other commit).  What a request has added
\* to the session and not committed is lost when the request ends.

\* create as it reaches the tables: the block around group_repo.create
\* commits the new default group, with its creator and the creator's
\* membership, before create_all runs; the built-in types, and a later user
\* with the membership, are committed by `if commit: self._uow.commit()`
UserService_create_uow(username, email_address, password, confirm_password, commit, create_all_raises) ==
    IF RegisterOutcome(username, email_address, password,
                       confirm_password) # "OK"
    THEN UNCHANGED <<dbvars, uservars, resp>>
    ELSE
    LET user_id == Len(users) + 1
        found == DefaultGroupFound
        group_id == IF found = {} THEN Len(groups) + 1
                    ELSE CHOOSE g \in found : TRUE
        raised == found = {} /\ create_all_raises
    IN
    /\ Len(users) < MaxUsers
    /\ next_uuid <= MaxUuids
    /\ next_uuid' = next_uuid + 1
    /\ IF found = {}
       THEN /\ \E salt \in Salts :
                    users' = Append(users,
                                    NewUser(username, email_address,
                                            PasswordService_hash(password,
                                                                 salt)))
            /\ groups' = Append(groups, [name |-> DEFAULT_GROUP_NAME,
                                         creator |-> user_id])
            /\ members' = members \cup
                    {GroupMember(user_id, group_id, TRUE, TRUE, TRUE, TRUE)}
            /\ IF commit /\ ~raised
               THEN /\ resources' = BuiltinResources(group_id)
                    /\ snapshots' = snapshots \cup BuiltinSnapshots
                    /\ next_resource_id' = next_resource_id + NumBuiltins
                    /\ next_snapshot_id' = next_snapshot_id + NumBuiltins
                    /\ UNCHANGED locks
               ELSE UNCHANGED dbvars
       ELSE /\ IF commit
               THEN /\ \E salt \in Salts :
                        users' = Append(users,
                                        NewUser(username, email_address,
                                                PasswordService_hash(password,
                                                                     salt)))
                    /\ members' = members \cup
                            {DefaultMember(user_id, group_id)}
               ELSE UNCHANGED <<users, members>>
            /\ UNCHANGED <<groups, dbvars>>
    /\ resp' = [op |-> "register", user_id |-> user_id,
                username |-> username, password |-> password,
                confirm_password |-> confirm_password,
                group_id |-> group_id, first |-> (found = {}),
                commit |-> commit, raised |-> raised, uuid |-> next_uuid]
    /\ UNCHANGED now

\* a registration request whose caller commits or not, and whose
\* registration of the built-in types succeeds or raises
RegisterRequest ==
    /\ \E username \in Usernames, password \in Passwords,
          confirm_password \in Passwords, commit \in BOOLEAN,
          create_all_raises \in BOOLEAN :
            UserService_create_uow(username, username, password,
                                   confirm_password, commit,
                                   create_all_raises)
    /\ UNCHANGED <<paging, sessions>>

\* ---- UserIdService.get, UserService.get ------------------------------------

\* UserIdService.get: what it raises or returns
UserIdService_get(user_id, error_if_not_found) ==
    IF ~user_repo_get(user_id)
    THEN IF error_if_not_found THEN "UserDoesNotExistError" ELSE "None"
    ELSE "OK"

\* the user list without the filter on is_deleted
UserListQuery_Deleted == DOMAIN users

\* filter_by(is_deleted=False) of both statements of the user list
UserListQuery == {u \in DOMAIN users : ~users[u].is_deleted}

\* UserService.get with an empty search string: the ids of the page and the
\* total
UserService_get(page_index, page_length) ==
    LET total_num_users == Cardinality(UserListQuery) IN
    IF total_num_users = 0
    THEN [rows |-> << >>, total |-> total_num_users]
    ELSE [rows |-> SubSeq([i \in 1..total_num_users |->
                            CHOOSE u \in UserListQuery :
                                Cardinality({v \in UserListQuery : v < u})
                                    = i - 1],
                          page_index + 1,
                          Min(page_index + page_length, total_num_users)),
          total |-> total_num_users]

\* ---- UserCurrentService.delete ---------------------------------------------

\* the call of authenticate with a failure only reported in the return value
DeleteAuthenticate_NoError(user, password) ==
    UserPasswordService_authenticate(password, user.password,
                                     user.password_expire_on, FALSE)

\* authenticate(password, current_user.password,
\* current_user.password_expire_on, error_if_failed=True)
DeleteAuthenticate(user, password) ==
    UserPasswordService_authenticate(password, user.password,
                                     user.password_expire_on, TRUE)

\* what delete raises, "OK" when it runs to its return: the value
\* authenticate returns is not looked at
DeleteUserOutcome(user, password) ==
    IF DeleteAuthenticate(user, password)
            \in {"UserPasswordVerificationError", "UserPasswordExpiredError"}
    THEN DeleteAuthenticate(user, password)
    ELSE "OK"

\* uow.user_repo.delete(current_user): the row marked as deleted
user_repo_delete(user_id) == [users EXCEPT ![user_id].is_deleted = TRUE]

UserCurrentService_delete(current_user, password) ==
    IF DeleteUserOutcome(users[current_user], password) # "OK"
    THEN UNCHANGED <<uservars, resp>>
    ELSE /\ users' = user_repo_delete(current_user)
         /\ resp' = [op |-> "delete_user", user_id |-> current_user,
                     password |-> password]
         /\ UNCHANGED <<groups, members, now, next_uuid>>

\* a logged-in user, one that load_user finds, deletes the account
DeleteCurrentUser ==
    /\ \E current_user \in UserIds, password \in Passwords :
            /\ user_repo_get(current_user)
            /\ UserCurrentService_delete(current_user, password)
    /\ UNCHANGED <<dbvars, paging, sessions>>

\* ---- requests that run next to each other ---------------------------------

\* Every request has a db.session of its own.  The statements of a request
\* read what is committed when they run; the rows a request adds reach the
\* tables when it commits.  A request takes two steps: its reads and checks,
\* then its insert and commit; a delete reads and commits in one.

\* the session of a request: where the request is, what it was asked, the
\* snapshot its checks read, the row it holds and what it raised
Session(pc, op, resource_id, name, group_id, read, row, error) ==
    [pc |-> pc, op |-> op, resource_id |-> resource_id, name |-> name,
     group_id |-> group_id, read |-> read, row |-> row, error |-> error]

\* the session of a request not yet received
Waiting == Session("waiting", "none", 0, 0, 0, NoRow, NoRow, "")

\* the session of a request that raised at its checks
Raised(op, resource_id, name, group_id, error) ==
    Session("raised", op, resource_id, name, group_id, NoRow, NoRow, error)

\* PluginParameterTypeService.create up to the end of its checks
CreateCheck(w) ==
    /\ sessions[w].pc = "waiting"
    /\ \E name \in Names, group_id \in Groups :
            sessions' =
                [sessions EXCEPT ![w] =
                    IF CreateOutcome(name, group_id) # "OK"
                    THEN Raised("create", 0, name, group_id,
                                CreateOutcome(name, group_id))
                    ELSE Session("checked", "create", 0, name, group_id,
                                 NoRow, NoRow, "")]
    /\ UNCHANGED <<dbvars, resp, paging, uservars>>

\* db.session.commit(): neither create nor modify handles a rejection, and
\* no constraint of the tables can reject a name, which the snapshots of one
\* resource repeat
CommitRejected(w) == FALSE

\* PluginParameterTypeService.create from db.session.add to its return
CreateInsert(w) ==
    /\ sessions[w].pc = "checked"
    /\ sessions[w].op = "create"
    /\ IF CommitRejected(w)
       THEN /\ sessions' = [sessions EXCEPT
                                ![w] = Raised("create", 0, sessions[w].name,
                                              sessions[w].group_id,
                                              "IntegrityError")]
            /\ UNCHANGED dbvars
       ELSE LET new_plugin_parameter_type ==
                    NewSnapshot(next_snapshot_id, next_resource_id,
                                sessions[w].name, PlainStructure,
                                PlainDescription)
            IN /\ resources' =
                    RepointLatest(
                        AddResource(resources, next_resource_id,
                                    sessions[w].group_id),
                        next_resource_id, next_snapshot_id)
               /\ snapshots' = SessionAdd(snapshots, new_plugin_parameter_type)
               /\ next_resource_id' = next_resource_id + 1
               /\ next_snapshot_id' = next_snapshot_id + 1
               /\ sessions' =
                    [sessions EXCEPT
                        ![w] = Session("done", "create", next_resource_id,
                                       sessions[w].name, sessions[w].group_id,
                                       NoRow, new_plugin_parameter_type, "")]
               /\ UNCHANGED locks
    /\ UNCHANGED <<resp, paging, uservars>>

\* PluginParameterTypeIdService.modify up to the end of its checks: the
\* session holds the snapshot that get returned
ModifyCheck(w) ==
    /\ sessions[w].pc = "waiting"
    /\ \E plugin_parameter_type_id \in ResourceIds, name \in Names :
            sessions' =
                [sessions EXCEPT ![w] =
                    IF ModifyOutcome(plugin_parameter_type_id, name, TRUE)
                            # "OK"
                    THEN Raised("modify", plugin_parameter_type_id, name, 0,
                                ModifyOutcome(plugin_parameter_type_id, name,
                                              TRUE))
                    ELSE Session("checked", "modify",
                                 plugin_parameter_type_id, name,
                                 resources[plugin_parameter_type_id].group_id,
                                 IdGetRow(plugin_parameter_type_id), NoRow,
                                 "")]
    /\ UNCHANGED <<dbvars, resp, paging, uservars>>

\* PluginParameterTypeIdService.modify from db.session.add to its return:
\* the new snapshot is one of the resource of the snapshot read
ModifyInsert(w) ==
    /\ sessions[w].pc = "checked"
    /\ sessions[w].op = "modify"
    /\ IF CommitRejected(w)
       THEN /\ sessions' = [sessions EXCEPT
                                ![w] = Raised("modify",
                                              sessions[w].resource_id,
                                              sessions[w].name,
                                              sessions[w].group_id,
                                              "IntegrityError")]
            /\ UNCHANGED dbvars
       ELSE LET new_plugin_parameter_type ==
                    NewSnapshot(next_snapshot_id, sessions[w].read.resource_id,
                                sessions[w].name, PlainStructure,
                                PlainDescription)
            IN /\ snapshots' = SessionAdd(snapshots, new_plugin_parameter_type)
               /\ resources' =
                    RepointLatest(resources, sessions[w].read.resource_id,
                                  next_snapshot_id)
               /\ next_snapshot_id' = next_snapshot_id + 1
               /\ sessions' =
                    [sessions EXCEPT
                        ![w] = Session("done", "modify",
                                       sessions[w].resource_id,
                                       sessions[w].name, sessions[w].group_id,
                                       sessions[w].read,
                                       new_plugin_parameter_type, "")]
               /\ UNCHANGED <<locks, next_resource_id>>
    /\ UNCHANGED <<resp, paging, uservars>>

\* PluginParameterTypeIdService.delete: its query, the lock and the commit
DeleteRequest(w) ==
    /\ sessions[w].pc = "waiting"
    /\ \E plugin_parameter_type_id \in ResourceIds :
            IF DeleteOutcome(plugin_parameter_type_id) # "OK"
            THEN /\ sessions' =
                      [sessions EXCEPT
                          ![w] = Raised("delete", plugin_parameter_type_id, 0,
                                        0, DeleteOutcome(
                                               plugin_parameter_type_id))]
                 /\ UNCHANGED locks
            ELSE /\ locks' =
                      SessionAdd(locks,
                                 DeletedResourceLock(plugin_parameter_type_id))
                 /\ sessions' =
                      [sessions EXCEPT
                          ![w] = Session("done", "delete",
                                         plugin_parameter_type_id, 0, 0,
                                         NoRow, NoRow, "")]
    /\ UNCHANGED <<resources, snapshots, next_resource_id, next_snapshot_id,
                   resp, paging, uservars>>

\* ---- the system -----------------------------------------------------------

\* the groups the plugin parameter types are created in: the default group
\* and the others, created before by users that take no further part
SeededGroups ==
    [g \in Groups |->
        [name |-> <<DEFAULT_GROUP_NAME, "second", "third", "fourth">>[g],
         creator |-> 0]]

\* no request runs next to another
NoSessions == << >>

\* no request completed yet
NoResponse == Response("none", NoRow, 0, 0, 0, 0, 0)

Init ==
    /\ resources = << >>
    /\ snapshots = {}
    /\ locks = {}
    /\ next_resource_id = 1
    /\ next_snapshot_id = 1
    /\ resp = NoResponse
    /\ paging = Idle
    /\ users = << >>
    /\ groups = SeededGroups
    /\ members = {}
    /\ now = 0
    /\ next_uuid = 1
    /\ sessions = NoSessions

Next == Create \/ Modify \/ Delete

Spec == Init /\ [][Next]_vars

\* ---- the first resource, with every value of its fields ------------------

NextFields == CreateFields \/ ModifyFields \/ Delete

SpecFields == Init /\ [][NextFields]_vars

\* ---- calls of authenticate ----------------------------------------------

\* a call of authenticate with any password, stored hash, expiration date
\* and error_if_failed, on any day
InitAuthenticate ==
    /\ resources = << >>
    /\ snapshots = {}
    /\ locks = {}
    /\ next_resource_id = 1
    /\ next_snapshot_id = 1
    /\ paging = Idle
    /\ users = << >>
    /\ groups = << >>
    /\ members = {}
    /\ next_uuid = 1
    /\ sessions = NoSessions
    /\ now \in Days
    /\ \E password \in Passwords, stored \in Passwords, salt \in Salts,
          expiration_date \in Days, error_if_failed \in BOOLEAN :
            resp = AuthenticateCall(password,
                                    PasswordService_hash(stored, salt),
                                    expiration_date, error_if_failed)

NextAuthenticate == Authenticate

SpecAuthenticate == InitAuthenticate /\ [][NextAuthenticate]_vars

\* ---- the users -------------------------------------------------------------

\* no user has registered yet: every table is empty
InitUsers ==
    /\ resources = << >>
    /\ snapshots = {}
    /\ locks = {}
    /\ next_resource_id = 1
    /\ next_snapshot_id = 1
    /\ resp = NoResponse
    /\ paging = Idle
    /\ users = << >>
    /\ groups = << >>
    /\ members = {}
    /\ now = 0
    /\ next_uuid = 1
    /\ sessions = NoSessions

\* the users register as the days pass
NextUsers == Register \/ Tick

SpecUsers == InitUsers /\ [][NextUsers]_vars

\* the users register through requests that end with or without a commit
NextRegistration == RegisterRequest

SpecRegistration == InitUsers /\ [][NextRegistration]_vars

\* the first user registers, changes the password and deletes the account
\* as the days pass
NextPassword == RegisterFirst \/ ChangePassword \/ DeleteCurrentUser \/ Tick

SpecPassword == InitUsers /\ [][NextPassword]_vars

\* ---- the list read page by page over tables that do not change -----------

\* the tables after k creates with names 1..k, the groups taken in turn, and
\* the deletion of the resources of the set deleted
InitPaging ==
    \E k \in 0..MaxItems :
    \E deleted \in SUBSET (1..k) :
        /\ resources =
                [r \in 1..k |->
                    [resource_type |-> RESOURCE_TYPE,
                     group_id |-> ((r - 1) % NumGroups) + 1,
                     latest_snapshot_id |-> r]]
        /\ snapshots = {NewSnapshot(r, r, r, PlainStructure, PlainDescription) : r \in 1..k}
        /\ locks = {DeletedResourceLock(r) : r \in deleted}
        /\ next_resource_id = k + 1
        /\ next_snapshot_id = k + 1
        /\ resp = NoResponse
        /\ paging = Idle
        /\ users = << >>
        /\ groups = SeededGroups
        /\ members = {}
        /\ now = 0
        /\ next_uuid = 1
        /\ sessions = NoSessions

NextPaging == ListStart \/ ListNext \/ BuildEnvelope \/ QueuesList

SpecPaging == InitPaging /\ [][NextPaging]_vars

\* ---- requests that run next to each other, over tables with a history ----

\* the tables after k creates with names 1..k in the first group, and a
\* request for every session
InitConcurrent ==
    \E k \in 0..(MaxResources - 1) :
        /\ resources =
                [r \in 1..k |->
                    [resource_type |-> RESOURCE_TYPE, group_id |-> 1,
                     latest_snapshot_id |-> r]]
        /\ snapshots = {NewSnapshot(r, r, r, PlainStructure, PlainDescription) : r \in 1..k}
        /\ locks = {}
        /\ next_resource_id = k + 1
        /\ next_snapshot_id = k + 1
        /\ resp = NoResponse
        /\ paging = Idle
        /\ users = << >>
        /\ groups = SeededGroups
        /\ members = {}
        /\ now = 0
        /\ next_uuid = 1
        /\ sessions = [w \in Requests |-> Waiting]

NextConcurrent ==
    \E w \in Requests :
        \/ CreateCheck(w)
        \/ CreateInsert(w)
        \/ ModifyCheck(w)
        \/ ModifyInsert(w)
        \/ DeleteRequest(w)

SpecConcurrent == InitConcurrent /\ [][NextConcurrent]_vars


\* ==== properties ===========================================================

\* the resources that exist and are not deleted
Active == {r \in DOMAIN resources : ~is_deleted(r)}

\* the snapshots of a resource
SnapshotsOf(r) == {s \in snapshots : s.resource_id = r}

\* the current name of resource r: the name of the snapshot that
\* latest_snapshot_id points to
CurrentNames(r) ==
    {s.name : s \in {t \in SnapshotsOf(r) :
                        t.resource_snapshot_id = resources[r].latest_snapshot_id}}

\* name is the current name of an active resource of the group
NameHeld(name, group_id) ==
    \E r \in Active :
        resources[r].group_id = group_id /\ name \in CurrentNames(r)

\* C1: after a successful create, get on the returned resource id returns a
\* snapshot whose name, structure, description and owning group are the
\* inputs of the create, and the response built for it reports
\* latest_snapshot = true.
C1_CreateThenGet ==
    resp.op = "create" =>
        LET got == PluginParameterTypeIdService_get(resp.resource_id, TRUE) IN
        /\ resp.group_id \in Groups
        /\ got.status = "OK"
        /\ got.row = resp.row
        /\ got.row.resource_id = resp.resource_id
        /\ got.row.name = resp.name
        /\ got.row.structure = resp.structure
        /\ got.row.description = resp.description
        /\ resources[got.row.resource_id].group_id = resp.group_id
        /\ got.row.resource_snapshot_id = latest_snapshot_id(resp.resource_id)
        /\ latest_snapshot(got.row)

C1_Witness ==
    /\ resp.op = "create"
    /\ resp.name = NumNames
    /\ resp.structure = NumStructures
    /\ resp.description # PlainDescription
    /\ resp.group_id = NumGroups

\* C2: history is immutable.  After a successful modify, get returns the
\* fields of the modify; every snapshot that existed before a step still
\* exists after it and get_snapshot returns it with the same field values.
C2_Step ==
    /\ \A s \in snapshots :
            ResourceSnapshotsIdService_get(s.resource_id,
                                           s.resource_snapshot_id)'
                = [status |-> "OK", row |-> s]
    /\ resp'.op = "modify" =>
            LET got == PluginParameterTypeIdService_get(resp.resource_id, TRUE)'
            IN /\ got.status = "OK"
               /\ got.row.name = resp'.name
               /\ got.row.structure = resp'.structure
               /\ got.row.description = resp'.description

C2_HistoryImmutable == [][C2_Step]_vars

C2_Witness ==
    /\ resp.op = "modify"
    /\ \E s \in SnapshotsOf(resp.resource_id) :
            /\ s.name # resp.name
            /\ ResourceSnapshotsIdService_get(resp.resource_id,
                                              s.resource_snapshot_id).row = s

\* C3: after a successful delete of R, get(R) with error_if_not_found fails
\* with DoesNotExist, and get_snapshot still succeeds for every snapshot R
\* had before the delete.
C3_Step ==
    (resp' # resp /\ resp'.op = "delete") =>
        /\ PluginParameterTypeIdService_get(resp.resource_id, TRUE)'.status
                = "DoesNotExist"
        /\ \A s \in SnapshotsOf(resp'.resource_id) :
                ResourceSnapshotsIdService_get(s.resource_id,
                                               s.resource_snapshot_id)'
                    = [status |-> "OK", row |-> s]

C3_DeleteThenGet == [][C3_Step]_vars

C3_Witness ==
    /\ resp.op = "delete"
    /\ Cardinality(SnapshotsOf(resp.resource_id)) >= 2

\* C4: a create with a name that is the current name of an active resource
\* of the same group fails with AlreadyExists and leaves the tables as they
\* were: in every state create raises AlreadyExists for every such name, and
\* no create that completes is one of such a name.
C4_Inv ==
    \A name \in Names, group_id \in GroupIds :
        NameHeld(name, group_id)
            => CreateOutcome(name, group_id) = "AlreadyExists"

C4_Step ==
    (resp' # resp /\ resp'.op = "create")
        => ~NameHeld(resp'.name, resp'.group_id)

C4_CreateExisting == []C4_Inv /\ [][C4_Step]_vars

C4_Witness ==
    /\ resp.op = "create"
    /\ resp.resource_id = MaxResources
    /\ CreateOutcome(resp.name, resp.group_id) = "AlreadyExists"
    /\ \E name \in Names : CreateOutcome(name, resp.group_id) = "OK"

\* the resources a modify of R to the name collides with: the other active
\* resources of R's group whose current name it is
Collisions(R, name) ==
    {o \in Active \ {R} :
        /\ resources[o].group_id = resources[R].group_id
        /\ name \in CurrentNames(o)}

\* C5: a modify of an active resource R to a name that is the current name
\* of another active resource of R's group fails with AlreadyExists; a modify
\* of a deleted or unknown resource with error_if_not_found fails with
\* DoesNotExist; in both cases the tables are left as they were: no modify
\* that completes is one of these.
C5_Inv ==
    \A R \in ResourceIds, name \in Names :
        /\ (R \in Active /\ Collisions(R, name) # {})
            => \A error_if_not_found \in BOOLEAN :
                 ModifyOutcome(R, name, error_if_not_found) = "AlreadyExists"
        /\ R \notin Active => ModifyOutcome(R, name, TRUE) = "DoesNotExist"

C5_Step ==
    (resp' # resp /\ resp'.op = "modify") =>
        /\ resp'.resource_id \in Active
        /\ Collisions(resp'.resource_id, resp'.name) = {}

C5_ModifyErrors == []C5_Inv /\ [][C5_Step]_vars

C5_Witness ==
    /\ resp.op = "modify"
    /\ \E name \in Names :
            /\ Collisions(resp.resource_id, name) # {}
            /\ ModifyOutcome(resp.resource_id, name, TRUE) = "AlreadyExists"
    /\ \E R \in ResourceIds : R \notin Active

\* C6: for every group and name at most one active resource of the group
\* has that name as its current name.
C6_NameUnique ==
    \A r1 \in Active, r2 \in Active :
        ( /\ r1 # r2
          /\ resources[r1].group_id = resources[r2].group_id )
        => CurrentNames(r1) \cap CurrentNames(r2) = {}

C6_Witness ==
    /\ \E r1 \in Active, r2 \in Active :
            /\ r1 # r2
            /\ resources[r1].group_id = resources[r2].group_id
    /\ resp.op = "modify"

\* C7: in every state each resource's latest_snapshot_id is the id of one of
\* its own snapshots and the greatest of their ids, and exactly one snapshot
\* of the resource reports latest_snapshot = true; every successful modify
\* adds a snapshot whose id is greater than all earlier ones of the resource
\* and repoints latest_snapshot_id to it.
C7_Inv ==
    \A r \in DOMAIN resources :
        /\ \E s \in SnapshotsOf(r) :
                s.resource_snapshot_id = resources[r].latest_snapshot_id
        /\ \A s \in SnapshotsOf(r) :
                s.resource_snapshot_id <= resources[r].latest_snapshot_id
        /\ Cardinality({s \in SnapshotsOf(r) : latest_snapshot(s)}) = 1

C7_Step ==
    (resp' # resp /\ resp'.op = "modify") =>
        LET R == resp'.resource_id IN
        \E n \in snapshots' \ snapshots :
            /\ n.resource_id = R
            /\ \A s \in SnapshotsOf(R) :
                    n.resource_snapshot_id > s.resource_snapshot_id
            /\ resources'[R].latest_snapshot_id = n.resource_snapshot_id
            /\ n = resp'.row

C7_LatestPointer == []C7_Inv /\ [][C7_Step]_vars

C7_Witness ==
    /\ resp.op = "modify"
    /\ Cardinality(SnapshotsOf(resp.resource_id)) >= 2
    /\ \E r \in DOMAIN resources :
            /\ r # resp.resource_id
            /\ resources[r].latest_snapshot_id < resp.row.resource_snapshot_id

\* C8: deleted is terminal.  Once a resource is deleted it stays deleted,
\* get finds nothing, a modify with error_if_not_found and a delete of it
\* fail with DoesNotExist, and no snapshot or lock is added to it.
C8_Inv ==
    \A r \in DOMAIN resources :
        is_deleted(r) =>
            /\ PluginParameterTypeIdService_get(r, FALSE).status = "None"
            /\ PluginParameterTypeIdService_get(r, TRUE).status
                    = "DoesNotExist"
            /\ \A name \in Names :
                    /\ ModifyOutcome(r, name, TRUE) = "DoesNotExist"
                    /\ ModifyOutcome(r, name, FALSE) = "None"
            /\ DeleteOutcome(r) = "DoesNotExist"

C8_Step ==
    \A r \in DOMAIN resources :
        is_deleted(r) =>
            /\ is_deleted(r)'
            /\ SnapshotsOf(r)' = SnapshotsOf(r)
            /\ {l \in locks : l.resource_id = r}'
                    = {l \in locks : l.resource_id = r}
            /\ resources'[r] = resources[r]
            /\ resp' # resp => resp'.resource_id # r

C8_DeletedTerminal == []C8_Inv /\ [][C8_Step]_vars

C8_Witness ==
    /\ resp.op = "create"
    /\ \E r \in DOMAIN resources :
            /\ r < resp.resource_id
            /\ is_deleted(r)
            /\ Cardinality(SnapshotsOf(r)) >= 2
            /\ DeleteOutcome(r) = "DoesNotExist"

\* the items of the collection a list request of the group is about: the
\* responses built for the current snapshots of the active resources
Collection(group_id) ==
    {build_plugin_parameter_type(s) :
        s \in {t \in snapshots :
                /\ t.resource_id \in Active
                /\ (group_id # NoneValue
                        => resources[t.resource_id].group_id = group_id)
                /\ t.resource_snapshot_id
                        = resources[t.resource_id].latest_snapshot_id}}

\* the elements of a sequence
Range(seq) == {seq[i] : i \in 1..Len(seq)}

\* C9: reading a collection of N items from index 0 with page length L >= 1
\* and following the next links takes finitely many pages (at most N, or one
\* when N = 0); the data of the pages read, concatenated, has no duplicates
\* and only items of the collection, and is all N items when the last page
\* is read; is_complete is true on the last page and false on every earlier one.
C9_Traversal ==
    paging.phase \in {"paging", "done"} =>
        LET items == Collection(paging.group_id)
            N == Cardinality(items)
            pages == Len(paging.completes)
        IN /\ paging.length >= 1
           /\ pages >= 1
           /\ pages <= Max(1, N)
           /\ Range(paging.acc) \subseteq items
           /\ Cardinality(Range(paging.acc)) = Len(paging.acc)
           /\ Len(paging.acc) = Min(N, pages * paging.length)
           /\ \A i \in 1..(pages - 1) : paging.completes[i] = FALSE
           /\ paging.completes[pages] = (paging.phase = "done")
           /\ paging.phase = "done" =>
                /\ Range(paging.acc) = items
                /\ Len(paging.acc) = N
                /\ paging.total = N

C9_Witness ==
    /\ paging.phase = "done"
    /\ Len(paging.completes) = 2
    /\ paging.length = 2
    /\ Len(paging.acc) = 3
    /\ \E r \in DOMAIN resources : is_deleted(r)

\* C10: the envelope has a prev link exactly when index > 0 and a next link
\* exactly when total_num_elements > index + length; is_complete is true
\* exactly when there is no next link; index and total_num_results are the
\* arguments.
C10_Envelope ==
    paging.phase \in {"built", "paging", "done"} =>
        LET e == paging.env IN
        /\ ("prev" \in DOMAIN e) <=> (paging.index > 0)
        /\ ("next" \in DOMAIN e)
                <=> (paging.total > paging.index + paging.length)
        /\ e.is_complete <=> ("next" \notin DOMAIN e)
        /\ e.index = paging.index
        /\ e.total_num_results = paging.total

C10_Witness ==
    /\ paging.phase = "built"
    /\ paging.index > 0
    /\ paging.total = paging.index + paging.length
    /\ "prev" \in DOMAIN paging.env
    /\ "next" \notin DOMAIN paging.env

\* the draft_type query parameter a client following a link sends
LinkDraftType(url) ==
    IF "draft_type" \in DOMAIN url THEN url.draft_type ELSE ""

\* the link leads to the route of the request with the filter parameters and
\* the page length of the request
SameFilter(url) ==
    /\ url.path = PLUGIN_PARAMETER_TYPES
    /\ LinkGroupId(url) = paging.group_id
    /\ LinkSearch(url) = paging.search
    /\ LinkDraftType(url) = paging.draft_type
    /\ url.pageLength = paging.length

\* C11: the first, prev and next URLs of the envelope carry the groupId,
\* search, draft_type and pageLength of the request and differ only in
\* index: first has index 0, next has index + length, prev has
\* max(index - length, 0).
C11_SameParameters ==
    paging.phase \in {"built", "paging", "done"} =>
        LET e == paging.env IN
        /\ SameFilter(e.first)
        /\ e.first.index = 0
        /\ "prev" \in DOMAIN e =>
                /\ SameFilter(e.prev)
                /\ e.prev.index = Max(paging.index - paging.length, 0)
        /\ "next" \in DOMAIN e =>
                /\ SameFilter(e.next)
                /\ e.next.index = paging.index + paging.length

\* C12 as stated: authenticate fails with the password verification error
\* whenever the supplied password does not match the stored hash.
C12_MismatchAlwaysFails ==
    ( /\ resp.op = "authenticate"
      /\ resp.result # "pending"
      /\ ~PasswordService_verify(resp.password, resp.user_password) )
        => resp.result = "UserPasswordVerificationError"

\* C12, amended: when the supplied password does not match the stored hash,
\* authenticate fails with the password verification error if
\* error_if_failed is set; if it is not set, authenticate fails with the
\* password-expired error when the expiration date has passed and returns
\* False otherwise.
C12_MismatchFails ==
    ( /\ resp.op = "authenticate"
      /\ resp.result # "pending"
      /\ ~PasswordService_verify(resp.password, resp.user_password) )
        => resp.result =
                IF resp.error_if_failed THEN "UserPasswordVerificationError"
                ELSE IF resp.expiration_date < now
                THEN "UserPasswordExpiredError"
                ELSE "False"

C12_Witness ==
    /\ resp.op = "authenticate"
    /\ resp.user_password.digest[2] # resp.password
    /\ resp.error_if_failed
    /\ resp.expiration_date < now
    /\ resp.result = "UserPasswordVerificationError"

\* C13: when the password matches the stored hash and the expiration date
\* is earlier than the current time, authenticate fails with the
\* password-expired error; it returns True exactly when the password matches
\* and the expiration date has not passed.
C13_ExpiredOrTrue ==
    (resp.op = "authenticate" /\ resp.result # "pending") =>
        LET matches == resp.user_password.digest[2] = resp.password IN
        /\ (matches /\ resp.expiration_date < now)
                => resp.result = "UserPasswordExpiredError"
        /\ resp.result = "True"
                <=> (matches /\ resp.expiration_date >= now)

C13_Witness ==
    /\ resp.op = "authenticate"
    /\ resp.user_password.digest[2] = resp.password
    /\ resp.expiration_date = now
    /\ now > 0
    /\ resp.result = "True"

\* the password the hash was made of
PasswordOf(hashed_password) == hashed_password.digest[2]

\* a change of the password of a user has just completed
Changed == resp' # resp /\ resp'.op = "change"

\* C14: change fails with the password-change error when the current
\* password does not verify against the stored hash or when new_password
\* differs from confirm_new_password, and then the user's password hash,
\* alternative_id, last_modified_on and password_expire_on are unchanged: no
\* change that completes is one of these, and these fields of a user change
\* only by a change that completes.
C14_Inv ==
    \A u \in DOMAIN users :
    \A current_password \in Passwords, new_password \in Passwords,
       confirm_new_password \in Passwords :
        ( \/ PasswordOf(users[u].password) # current_password
          \/ new_password # confirm_new_password )
        => ChangeOutcome(users[u], current_password, new_password,
                         confirm_new_password) = "UserPasswordChangeError"

C14_Step ==
    /\ Changed =>
            /\ PasswordOf(users[resp'.user_id].password)
                    = resp'.current_password
            /\ resp'.new_password = resp'.confirm_new_password
    /\ \A u \in DOMAIN users :
            ( \/ users'[u].password # users[u].password
              \/ users'[u].alternative_id # users[u].alternative_id
              \/ users'[u].last_modified_on # users[u].last_modified_on
              \/ users'[u].password_expire_on # users[u].password_expire_on )
            => (Changed /\ resp'.user_id = u)

C14_ChangeErrors == []C14_Inv /\ [][C14_Step]_vars

C14_Witness ==
    /\ resp.op = "change"
    /\ ChangeOutcome(users[resp.user_id], resp.current_password,
                     resp.current_password, resp.current_password)
            = "UserPasswordChangeError"
    /\ ChangeOutcome(users[resp.user_id], resp.new_password,
                     resp.current_password, resp.new_password)
            = "UserPasswordChangeError"

\* C15: a change in which new_password equals the current password, with
\* the correct current password and a matching confirmation, fails with the
\* same-password error, and the user's alternative_id, password hash and
\* password_expire_on are unchanged: no change that completes is one to the
\* password the user has.
C15_Inv ==
    \A u \in DOMAIN users :
        LET password == PasswordOf(users[u].password) IN
        ChangeOutcome(users[u], password, password, password)
            = "UserPasswordChangeSamePasswordError"

C15_Step ==
    Changed => resp'.new_password # PasswordOf(users[resp'.user_id].password)

C15_SamePassword == []C15_Inv /\ [][C15_Step]_vars

C15_Witness ==
    /\ resp.op = "change"
    /\ users[resp.user_id] # resp.before
    /\ ChangeOutcome(users[resp.user_id], resp.new_password,
                     resp.new_password, resp.new_password)
            = "UserPasswordChangeSamePasswordError"

\* the values uuid.uuid4() returns in a run, and the one it returns next
Uuids == 1..(MaxUuids + 1)

\* C16: a change that completes gives the user an alternative_id that no
\* user had before; load_user with the previous alternative id no longer
\* returns the user, load_user with the new one does.
C16_Step ==
    Changed =>
        \A u \in UserIds, old \in Uuids, new \in Uuids :
            ( /\ u = resp'.user_id
              /\ old = users[u].alternative_id
              /\ new = users'[u].alternative_id )
            => /\ new # old
               /\ \A o \in DOMAIN users : users[o].alternative_id # new
               /\ u \notin load_user(old)'
               /\ load_user(new)' = {u}

C16_Rotation == [][C16_Step]_vars

C16_Witness ==
    /\ resp.op = "change"
    /\ resp.before.alternative_id > 1
    /\ load_user(resp.before.alternative_id) = {}
    /\ load_user(users[resp.user_id].alternative_id) = {resp.user_id}

\* authenticate called with the stored hash and expiration date of the user
AuthenticateUser(u, password, error_if_failed) ==
    UserPasswordService_authenticate(password, users[u].password,
                                     users[u].password_expire_on,
                                     error_if_failed)

\* C17: a change that completes sets password_expire_on to the timestamp of
\* the change plus 365 days, whatever the expiry was before, and the stored
\* hash to a hash of the new password; afterwards authenticate with the new
\* password returns True and authenticate with the old password does not.
C17_Step ==
    Changed =>
        \A u \in UserIds, old \in Passwords, new \in Passwords :
            ( /\ u = resp'.user_id
              /\ old = resp'.current_password
              /\ new = resp'.new_password )
            => /\ DAYS_TO_EXPIRE_PASSWORD_DEFAULT = 365
               /\ users'[u].password_expire_on = resp'.timestamp + 365
               /\ resp'.timestamp = now
               /\ PasswordOf(users'[u].password) = new
               /\ \A error_if_failed \in BOOLEAN :
                    /\ AuthenticateUser(u, new, error_if_failed)' = "True"
                    /\ AuthenticateUser(u, old, error_if_failed)'
                        \in {"False", "UserPasswordVerificationError"}

C17_NewExpiry == [][C17_Step]_vars

C17_Witness ==
    /\ resp.op = "change"
    /\ resp.before.password_expire_on < resp.timestamp
    /\ users[resp.user_id].password_expire_on > now

\* a registration has just completed
Registered == resp' # resp /\ resp'.op = "register"

\* C18: create fails with the registration error when password differs
\* from confirm_password, and then no user, no group and no plugin parameter
\* type is created, also for the first-ever registration: no registration
\* that completes is one of these, and the tables grow only by a
\* registration that completes.
C18_Inv ==
    \A username \in Usernames, email_address \in Usernames,
       password \in Passwords, confirm_password \in Passwords :
        password # confirm_password
            => RegisterOutcome(username, email_address, password,
                               confirm_password) = "UserRegistrationError"

C18_Step ==
    /\ Registered => resp'.password = resp'.confirm_password
    /\ ( \/ Len(users') # Len(users)
         \/ groups' # groups
         \/ members' # members
         \/ resources' # resources
         \/ snapshots' # snapshots ) => Registered

C18_RegistrationError == []C18_Inv /\ [][C18_Step]_vars

C18_Witness ==
    /\ resp.op = "register"
    /\ resp.first
    /\ Len(users) = 1
    /\ \E username \in Usernames, password \in Passwords :
            /\ RegisterOutcome(username, username, password, password) = "OK"
            /\ \E confirm_password \in Passwords :
                    RegisterOutcome(username, username, password,
                                    confirm_password) = "UserRegistrationError"

\* the plugin parameter types of a group: the names of its resources
BuiltinsOf(g) ==
    {s.name : s \in {t \in snapshots : resources[t.resource_id].group_id = g}}

\* C19: the first registration that completes creates the group "public"
\* with that user as creator and registers the built-in plugin parameter
\* types into it; every later one reuses the group.  In every state with a
\* registered user there is exactly one group named "public", its creator
\* is the first user, and every registered user is a member of it exactly
\* once, the later users with read and write true and share_read and
\* share_write false.
C19_Inv ==
    IF users = << >>
    THEN groups = << >> /\ members = {} /\ snapshots = {}
    ELSE /\ Cardinality(group_repo_get_by_name(DEFAULT_GROUP_NAME)) = 1
         /\ \A g \in group_repo_get_by_name(DEFAULT_GROUP_NAME) :
                /\ groups[g].creator = 1
                /\ BuiltinsOf(g) = {NumNames + i : i \in 1..NumBuiltins}
                /\ Cardinality(DOMAIN resources) = NumBuiltins
                /\ \A u \in DOMAIN users :
                    /\ Cardinality({m \in members :
                            m.user_id = u /\ m.group_id = g}) = 1
                    /\ u # 1 => DefaultMember(u, g) \in members

C19_Step ==
    Registered =>
        /\ resp'.first <=> users = << >>
        /\ resp'.first =>
                /\ groups = << >>
                /\ groups'[resp'.group_id] =
                        [name |-> DEFAULT_GROUP_NAME,
                         creator |-> resp'.user_id]
        /\ ~resp'.first =>
                /\ groups' = groups
                /\ resources' = resources /\ snapshots' = snapshots
                /\ groups[resp'.group_id].name = DEFAULT_GROUP_NAME

C19_DefaultGroup == []C19_Inv /\ [][C19_Step]_vars

C19_Witness ==
    /\ resp.op = "register"
    /\ ~resp.first
    /\ Len(users) = MaxUsers
    /\ Cardinality(members) = MaxUsers
    /\ Len(groups) = 1

\* C20: a list request for plugin parameter types with the search string
\* name:*pattern* succeeds, and the types it returns are current snapshots
\* of non-deleted plugin parameter types of the group asked for.
C20_SearchSucceeds ==
    ( /\ paging.phase \in {"error", "paging", "done"}
      /\ paging.search = "name:*int*" ) =>
        /\ paging.phase # "error"
        /\ Range(paging.acc) \subseteq ListQuery(paging.group_id)

\* the search strings and the page indexes of the list requests
SearchStrings == {"", "name:*int*"}
PageIndexes == 0..MaxIndex

Listed(group_id) ==
    {r \in DOMAIN resources :
        /\ ~is_deleted(r)
        /\ group_id # NoneValue => resources[r].group_id = group_id}

\* C24: the list operation with an empty search string returns a page and a
\* total such that the total is the number of non-deleted resources, of the
\* group when one is given; the page holds latest snapshots of such
\* resources only, each once, at most page_length of them, and is the slice
\* of the matching rows that starts at offset page_index; the page is empty
\* when the total is 0.
C24_ListPage ==
    \A group_id \in {NoneValue} \cup Groups :
    \A matching \in {ScanOrder({s \in snapshots :
                                /\ s.resource_id \in Listed(group_id)
                                /\ latest_snapshot(s)})} :
    \A page_index \in 0..MaxResources, page_length \in 0..MaxResources :
    \A got \in {PluginParameterTypeService_get(group_id, "", page_index,
                                               page_length)} :
        /\ got.status = "OK"
        /\ got.total = Cardinality(Listed(group_id))
        /\ Len(matching) = got.total
        /\ Len(got.rows) <= page_length
        /\ Len(got.rows) = Max(Min(page_length, got.total - page_index), 0)
        /\ \A k \in 1..Len(got.rows) :
                /\ got.rows[k] = matching[page_index + k]
                /\ got.rows[k].resource_id \in Listed(group_id)
                /\ latest_snapshot(got.rows[k])
                /\ \A j \in 1..Len(got.rows) :
                        j # k => got.rows[j].resource_id
                                    # got.rows[k].resource_id
        /\ got.total = 0 => got.rows = << >>

C24_Witness ==
    /\ resp.op = "modify"
    /\ \E r \in DOMAIN resources : is_deleted(r)
    /\ \E s \in snapshots :
            ~latest_snapshot(s) /\ ~is_deleted(s.resource_id)
    /\ PluginParameterTypeService_get(NoneValue, "", 0, 1).total = 1
    /\ Len(PluginParameterTypeService_get(NoneValue, "", 0, 1).rows) = 1

\* the request that completes in this step releases the name in the group:
\* it deletes the resource of the group that holds it, or renames it
Releases(name, group_id) ==
    /\ resp' # resp
    /\ resp'.resource_id \in Active
    /\ resources[resp'.resource_id].group_id = group_id
    /\ name \in CurrentNames(resp'.resource_id)
    /\ \/ resp'.op = "delete"
       \/ resp'.op = "modify" /\ resp'.name # name

\* C29: names are released by deletion and by renaming.  The name check
\* finds a name exactly when it is the current name of a non-deleted
\* resource of the same group, so a resource of another group never causes
\* AlreadyExists; right after a delete of R, or a rename of R away from the
\* name, a create of the name in R's group and a rename of another resource
\* of the group to it succeed.
C29_Inv ==
    \A name \in Names, group_id \in GroupIds :
        /\ CreateNameExists(name, group_id) <=> NameHeld(name, group_id)
        /\ \A o \in Active :
                ModifyOutcome(o, name, TRUE) = "AlreadyExists"
                    => NameHeld(name, resources[o].group_id)

C29_Step ==
    \A name \in Names, group_id \in Groups :
        Releases(name, group_id) =>
            /\ CreateOutcome(name, group_id)' = "OK"
            /\ \A o \in ResourceIds :
                    ( /\ o \in Active'
                      /\ o # resp'.resource_id
                      /\ resources'[o].group_id = group_id )
                    => ModifyOutcome(o, name, TRUE)' = "OK"

C29_NamesReleased == []C29_Inv /\ [][C29_Step]_vars

C29_Witness ==
    /\ resp.op = "create"
    /\ \E r \in DOMAIN resources :
            /\ is_deleted(r)
            /\ r # resp.resource_id
            /\ resources[r].group_id = resp.group_id
            /\ resp.name \in CurrentNames(r)

\* C30: a modify that keeps the current name of the resource never fails
\* with AlreadyExists: it succeeds on every non-deleted resource, adds
\* exactly one snapshot, of that resource, and leaves the resource's id and
\* owning group, every other resource, every earlier snapshot and the locks
\* as they were.
C30_Inv ==
    \A R \in Active, name \in Names, error_if_not_found \in BOOLEAN :
        name \in CurrentNames(R)
            => ModifyOutcome(R, name, error_if_not_found) = "OK"

C30_Step ==
    ( /\ resp' # resp
      /\ resp'.op = "modify"
      /\ resp'.name \in CurrentNames(resp'.resource_id) ) =>
        /\ snapshots \subseteq snapshots'
        /\ snapshots' \ snapshots = {resp'.row}
        /\ resp'.row.resource_id = resp'.resource_id
        /\ resp'.row.name = resp'.name
        /\ DOMAIN resources' = DOMAIN resources
        /\ resources'[resp'.resource_id].group_id
                = resources[resp'.resource_id].group_id
        /\ \A o \in DOMAIN resources :
                o # resp'.resource_id => resources'[o] = resources[o]
        /\ locks' = locks

C30_KeepName == []C30_Inv /\ [][C30_Step]_vars

C30_Witness ==
    /\ resp.op = "modify"
    /\ \E s \in SnapshotsOf(resp.resource_id) :
            s # resp.row /\ s.name = resp.name
    /\ \E o \in Active :
            /\ o # resp.resource_id
            /\ resources[o].group_id = resources[resp.resource_id].group_id

\* a deletion of the current user has just completed
DeletedUser == resp' # resp /\ resp'.op = "delete_user"

\* C26: delete removes the current user only after authenticating the
\* password: with a password that does not verify, or an expired one, the
\* call fails and the user is not deleted; after a delete that completes,
\* UserIdService.get of the user id raises UserDoesNotExistError and the
\* user list neither holds nor counts the user.
C26_Inv ==
    /\ \A u \in DOMAIN users, password \in Passwords :
        /\ ~PasswordService_verify(password, users[u].password)
            => DeleteUserOutcome(users[u], password)
                    = "UserPasswordVerificationError"
        /\ ( /\ PasswordService_verify(password, users[u].password)
             /\ users[u].password_expire_on < now )
            => DeleteUserOutcome(users[u], password)
                    = "UserPasswordExpiredError"
    /\ \A u \in DOMAIN users :
        users[u].is_deleted =>
            /\ UserIdService_get(u, TRUE) = "UserDoesNotExistError"
            /\ \A page_length \in 0..MaxUsers :
                    u \notin Range(UserService_get(0, page_length).rows)
    /\ UserService_get(0, MaxUsers).total
            = Cardinality({u \in DOMAIN users : ~users[u].is_deleted})

C26_Step ==
    /\ \A u \in DOMAIN users :
            users'[u].is_deleted # users[u].is_deleted
                => DeletedUser /\ resp'.user_id = u
    /\ DeletedUser =>
        \A u \in UserIds :
            u = resp'.user_id =>
                /\ PasswordService_verify(resp'.password, users[u].password)
                /\ users[u].password_expire_on >= now
                /\ UserIdService_get(u, TRUE) = "OK"
                /\ UserIdService_get(u, TRUE)' = "UserDoesNotExistError"
                /\ u \in Range(UserService_get(0, MaxUsers).rows)
                /\ u \notin Range(UserService_get(0, MaxUsers)'.rows)
                /\ UserService_get(0, MaxUsers)'.total
                        = UserService_get(0, MaxUsers).total - 1

C26_DeleteCurrentUser == []C26_Inv /\ [][C26_Step]_vars

C26_Witness ==
    /\ resp.op = "delete_user"
    /\ users[resp.user_id].is_deleted
    /\ users[resp.user_id].alternative_id > 1
    /\ now > 0

\* C27: GET /queues returns the paging envelope of the request: its index
\* is the requested index, total_num_results the total of the queue
\* service, and the first link carries the requested page length and search
\* string.
C27_QueuesEnvelope ==
    paging.phase \in {"queues", "TypeError"} =>
        /\ paging.phase = "queues"
        /\ paging.env.index = paging.index
        /\ paging.env.total_num_results = paging.total
        /\ paging.env.first.pageLength = paging.length
        /\ LinkSearch(paging.env.first) = paging.search

\* C22: when two creates of the same name in the same group run next to
\* each other, at most one of them succeeds: no two creates that completed
\* have made two active resources of one group with the same current name.
C22_ConcurrentCreate ==
    \A w1 \in Requests, w2 \in Requests :
        ( /\ w1 # w2
          /\ sessions[w1].pc = "done" /\ sessions[w1].op = "create"
          /\ sessions[w2].pc = "done" /\ sessions[w2].op = "create"
          /\ sessions[w1].name = sessions[w2].name
          /\ sessions[w1].group_id = sessions[w2].group_id )
        => ~( /\ sessions[w1].resource_id \in Active
              /\ sessions[w2].resource_id \in Active
              /\ sessions[w1].name \in CurrentNames(sessions[w1].resource_id)
              /\ sessions[w1].name \in CurrentNames(sessions[w2].resource_id) )

\* the greatest of a non-empty set of numbers
Greatest(S) == CHOOSE n \in S : \A m \in S : m <= n

\* C23: two modify calls on one resource that run next to each other both
\* succeed.  A modify that passed its checks is not rejected afterwards; the
\* snapshot of every modify that completed stays readable by get_snapshot;
\* latest_snapshot_id of every resource is the id of the snapshot inserted
\* last.
C23_Inv ==
    /\ \A w \in Requests :
        (sessions[w].pc = "done" /\ sessions[w].op = "modify") =>
            ResourceSnapshotsIdService_get(
                sessions[w].row.resource_id,
                sessions[w].row.resource_snapshot_id)
                    = [status |-> "OK", row |-> sessions[w].row]
    /\ \A r \in DOMAIN resources :
        latest_snapshot_id(r)
            = Greatest({s.resource_snapshot_id : s \in SnapshotsOf(r)})

C23_Step ==
    \A w \in Requests :
        ( /\ sessions[w].pc = "checked"
          /\ sessions[w].op = "modify"
          /\ sessions'[w] # sessions[w] ) =>
            /\ sessions'[w].pc = "done"
            /\ snapshots' = snapshots \cup {sessions'[w].row}
            /\ sessions'[w].row \notin snapshots
            /\ sessions'[w].row.name = sessions[w].name
            /\ resources'[sessions[w].resource_id].latest_snapshot_id
                    = sessions'[w].row.resource_snapshot_id

C23_ConcurrentModify == []C23_Inv /\ [][C23_Step]_vars

C23_Witness ==
    \E w1 \in Requests, w2 \in Requests :
        /\ w1 # w2
        /\ sessions[w1].pc = "done" /\ sessions[w1].op = "modify"
        /\ sessions[w2].pc = "done" /\ sessions[w2].op = "modify"
        /\ sessions[w1].resource_id = sessions[w2].resource_id
        /\ sessions[w1].read = sessions[w2].read
        /\ sessions[w1].name # sessions[w2].name
        /\ sessions[w1].row \in snapshots
        /\ sessions[w2].row \in snapshots
        /\ latest_snapshot_id(sessions[w1].resource_id)
                = sessions[w2].row.resource_snapshot_id

\* C28: no snapshot is attached to a deleted resource, also when a modify
\* and a delete of the resource run next to each other: a resource that is
\* deleted keeps its snapshots and its latest_snapshot_id.
C28_Step ==
    \A r \in DOMAIN resources :
        is_deleted(r) =>
            /\ SnapshotsOf(r)' = SnapshotsOf(r)
            /\ resources'[r].latest_snapshot_id
                    = resources[r].latest_snapshot_id

C28_NoSnapshotOnDeleted == [][C28_Step]_vars

\* C25: registration is one unit of work: a call of create that raises at
\* any step, or is called with commit=False and never committed, leaves no
\* group, user, membership or plugin parameter type of that call in the
\* tables.
C25_Step ==
    ( /\ resp' # resp
      /\ resp'.op = "register"
      /\ (resp'.raised \/ ~resp'.commit) ) =>
        /\ users' = users
        /\ groups' = groups
        /\ members' = members
        /\ resources' = resources
        /\ snapshots' = snapshots

C25_UnitOfWork == [][C25_Step]_vars
====
